---- MODULE Spec2Model ----
(***************************************************************************)
(* Header synchronisation of fork-observer (src/src/node.rs): the default  *)
(* methods of trait Node (new_headers, new_active_headers,                 *)
(* new_nonactive_headers, active_chain_headers_rest) run by pollers that   *)
(* share one Tree behind a mutex, against one node whose block tree is     *)
(* fixed during a call. Spec runs one poller, SpecConc two on a            *)
(* BitcoinCoreNode, SpecStall two on either backend; SpecShort lets the    *)
(* node send short REST answers, SpecMalformed lets it report a tip with   *)
(* branchlen above height, SpecReorg runs two cycles with a                *)
(* reorganisation of the node's active chain in between.                   *)
(***************************************************************************)
EXTENDS Integers, Sequences, FiniteSets, TLC

\* ------------------------------------------------------------------ bounds
\* Height of the node's active tip.
MaxHeight == 6
\* Fork 1 leaves the active chain at height Fork1Root and is Fork1Len long.
Fork1Root == 1
Fork1Len == 2
\* Fork 2 leaves the active chain at height Fork2Root and is Fork2Len long.
Fork2Root == 4
Fork2Len == 1
\* Longest tips list handed to new_headers.
MaxTips == 2
\* Worker threads of the executor the pollers are scheduled on.
Workers == 1

\* ------------------------------------------------------- program constants
\* node.rs:68  max(min_height as i64 - 5, 0)
SCAN_MARGIN == 5
\* node.rs:100 const STEP_SIZE: u64 = 2000, scaled down so that a range of
\* heights spans several batches.
STEP_SIZE == 3
\* node.rs:19
BTCD_USE_REST == FALSE
\* The number of values of u64 (2^64), scaled down to 2^8.
U64_RANGE == 256
\* node.rs:196 status_code != 200
HTTP_OK == 200
\* node.rs:208 chunks(80): the bytes of one serialized BlockHeader, scaled
\* down to the two fields a header of the model carries.
CHUNK_SIZE == 2

Pollers == {1, 2}
Forks == {1, 2}
NoPoller == 0

Max(a, b) == IF a >= b THEN a ELSE b
Min(a, b) == IF a <= b THEN a ELSE b

\* ------------------------------------------------- the node's block tree
\* A block hash is <<branch, height>>; branch 0 is the active chain.
ForkRoot(b) == IF b = 1 THEN Fork1Root ELSE Fork2Root
ForkLen(b) == IF b = 1 THEN Fork1Len ELSE Fork2Len
NullHash == <<0, -1>>
ActiveHash(h) == <<0, h>>
HeightOf(hash) == hash[2]
PrevHash(hash) ==
  IF hash[1] = 0 THEN (IF hash[2] = 0 THEN NullHash ELSE <<0, hash[2] - 1>>)
  ELSE IF hash[2] = ForkRoot(hash[1]) + 1 THEN <<0, hash[2] - 1>>
  ELSE <<hash[1], hash[2] - 1>>
\* BlockHeader: identified by its hash, carries prev_blockhash.
Header(hash) == [hash |-> hash, prev_blockhash |-> PrevHash(hash)]
HeaderInfo(height, header) == [height |-> height, header |-> header]

\* ChainTip records the node reports (getchaintips).
ActiveTip ==
  [hash |-> ActiveHash(MaxHeight), height |-> MaxHeight, branchlen |-> 0, status |-> "Active"]
ForkTip(b) ==
  [hash |-> <<b, ForkRoot(b) + ForkLen(b)>>, height |-> ForkRoot(b) + ForkLen(b),
   branchlen |-> ForkLen(b), status |-> "ValidFork"]
TipUniverse == {ActiveTip} \cup {ForkTip(b) : b \in Forks}
\* Every list of distinct tips of U with at most MaxTips entries, in every
\* order.
TipListsOf(U) ==
  {s \in UNION {[1..n -> U] : n \in 0..MaxTips} :
     \A i, j \in DOMAIN s : i # j => s[i] # s[j]}
TipLists == TipListsOf(TipUniverse)
\* A tip reported with a branchlen above its height.
MalformedTip ==
  [hash |-> <<1, Fork1Root + Fork1Len>>, height |-> Fork1Root + Fork1Len,
   branchlen |-> Fork1Root + Fork1Len + 1, status |-> "ValidFork"]

\* --------------------------------------------------------------- the Tree
\* The Tree is a set of HeaderInfo nodes; tree.1 (the hash index) is the set
\* of their hashes, and an edge runs from a node to each node whose
\* prev_blockhash is its hash.
TreeHashes(t) == {n.header.hash : n \in t}
ContainsKey(t, hash) == hash \in TreeHashes(t)
\* externals(Outgoing): the nodes without an outgoing edge.
Externals(t) == {n \in t : ~ \E m \in t : m.header.prev_blockhash = n.header.hash}
SetMax(S) == CHOOSE x \in S : \A y \in S : y <= x
SetMin(S) == CHOOSE x \in S : \A y \in S : x <= y
\* Mutant: the leaf scan is left out.
CurrentHeightNoScan(t, scan_start_height) == scan_start_height
\* node.rs:73-82
CurrentHeight(t, scan_start_height) ==
  IF t = {} THEN scan_start_height
  ELSE SetMax({n.height : n \in Externals(t)})

\* Trees earlier polling cycles leave behind. The first cycle, run at some
\* active height a <= hi with the smallest fork root at a at most, stored
\* the active chain from max(root - 5, 0) + 1 on, later cycles stored it up
\* to hi; a cycle that saw fork b stored its walk (the fork's blocks and the
\* active block it leaves from).
ActiveSeg(lo, hi) == {HeaderInfo(h, Header(ActiveHash(h))) : h \in lo..hi}
ForkWalk(b) ==
  {HeaderInfo(h, Header(<<b, h>>)) : h \in (ForkRoot(b) + 1)..(ForkRoot(b) + ForkLen(b))}
    \cup {HeaderInfo(ForkRoot(b), Header(ActiveHash(ForkRoot(b))))}
TreeWith(lo, hi, S) == ActiveSeg(lo, hi) \cup UNION {ForkWalk(b) : b \in S}
TreeInits ==
  {{}} \cup
  UNION {{TreeWith(lo, hi, S) :
            lo \in 1..Max(hi - SCAN_MARGIN + 1, 1),
            S \in SUBSET {b \in Forks : ForkRoot(b) <= hi}} : hi \in 1..MaxHeight}
\* The Trees the two-poller runs start from: the empty one, and the active
\* chain up to fork 2's root or to right below the tip, with or without the
\* forks.
TreeInitsConc ==
  {{}} \cup
  {TreeWith(1, hi, S) : hi \in {Fork2Root, MaxHeight - 1}, S \in {{}, {1}, Forks}}

\* ------------------------------------------------------------ tip filters
\* a - b on u64 underflows.
Underflows(a, b) == a < b
\* a - b on u64 in a build without overflow checks: the difference wraps.
WrappingSub(a, b) == IF a >= b THEN a - b ELSE a - b + U64_RANGE
\* x as i64
AsI64(x) == IF 2 * x >= U64_RANGE THEN x - U64_RANGE ELSE x
\* node.rs:58, 59, 67, 149: tip.height - tip.branchlen as u64
ForkRootHeight(tip) == WrappingSub(tip.height, tip.branchlen)
\* Mutant: >= in place of >.
QualifiesGe(tip, mfh) == ForkRootHeight(tip) >= mfh
\* node.rs:58
Qualifies(tip, mfh) == ForkRootHeight(tip) > mfh
\* Mutant: max_by_key in place of min_by_key.
FirstForkTipIdxMax(ts, mfh) ==
  LET Q == {k \in DOMAIN ts : Qualifies(ts[k], mfh)}
  IN IF Q = {} THEN 0
     ELSE SetMax({k \in Q : \A j \in Q : ForkRootHeight(ts[k]) >= ForkRootHeight(ts[j])})
\* node.rs:56-60: min_by_key returns the first minimum of the filtered tips;
\* 0 when no tip qualifies.
FirstForkTipIdx(ts, mfh) ==
  LET Q == {k \in DOMAIN ts : Qualifies(ts[k], mfh)}
  IN IF Q = {} THEN 0
     ELSE SetMin({k \in Q : \A j \in Q : ForkRootHeight(ts[k]) <= ForkRootHeight(ts[j])})
\* node.rs:67-68
ScanStartHeight(tip) == Max(AsI64(ForkRootHeight(tip)) - SCAN_MARGIN, 0)
\* Mutant: the status filter is left out.
LastActiveIdxAny(ts) == Len(ts)
\* node.rs:85-88: the last tip with status Active; 0 when there is none.
LastActiveIdx(ts) ==
  LET A == {k \in DOMAIN ts : ts[k].status = "Active"}
  IN IF A = {} THEN 0 ELSE SetMax(A)
\* Mutant: the filter on the status is left out.
NextInactiveIdxAny(ts, mfh, k) ==
  LET R == {j \in DOMAIN ts : j > k /\ Qualifies(ts[j], mfh)}
  IN IF R = {} THEN 0 ELSE SetMin(R)
\* node.rs:147-150: the next tip after position k the walk loop visits;
\* 0 when there is none.
NextInactiveIdx(ts, mfh, k) ==
  LET R == {j \in DOMAIN ts : j > k /\ Qualifies(ts[j], mfh) /\ ts[j].status # "Active"}
  IN IF R = {} THEN 0 ELSE SetMin(R)

\* Mutant: the test is inverted.
KnownNot(t, header_hash) == ~ ContainsKey(t, header_hash)
\* node.rs:106, 127: the hash at this height is already in the Tree.
Known(t, header_hash) == ContainsKey(t, header_hash)
\* Mutant: the test of the tip's hash is left out.
WalkBreaksNever(t, tip, next_header) == FALSE
\* node.rs:156-158: the walk breaks when the tip's own hash is in the Tree.
WalkBreaks(t, tip, next_header) == ContainsKey(t, tip.hash)
\* Mutant: 0..branchlen in place of 0..=branchlen.
WalkDoneExcl(i, branchlen) == i + 1 >= branchlen
\* node.rs:153: for i in 0..=branchlen ends after step i.
WalkDone(i, branchlen) == i + 1 > branchlen
\* node.rs:161
WalkHeight(tip, i) == WrappingSub(tip.height, i)

\* ------------------------------------------------------------ node answers
\* The node's active chain: branch 0, or after a reorganisation onto branch
\* b the blocks of b above b's root, grown to one block above MaxHeight.
NodeActiveHash(n, h) ==
  IF n.active_branch # 0 /\ h > ForkRoot(n.active_branch)
  THEN <<n.active_branch, h>> ELSE ActiveHash(h)
NodeTipHeight(n) == IF n.active_branch = 0 THEN MaxHeight ELSE MaxHeight + 1
\* The tips the node reports after a reorganisation onto branch b: the new
\* Active tip and the tip of the chain that was active before.
ReorgActiveTip(b) ==
  [hash |-> <<b, MaxHeight + 1>>, height |-> MaxHeight + 1, branchlen |-> 0,
   status |-> "Active"]
OldTip(b) ==
  [hash |-> ActiveHash(MaxHeight), height |-> MaxHeight,
   branchlen |-> MaxHeight - ForkRoot(b), status |-> "ValidFork"]
ReorgTipLists(b) == TipListsOf({ReorgActiveTip(b), OldTip(b)})
\* block_hash(height) of the node: the active-chain hash at that height.
BlockHashAnswer(n, height) == NodeActiveHash(n, height)
\* block_header(hash) of the node; it has no block with the null hash.
HasBlock(hash) == hash # NullHash
BlockHeaderAnswer(hash) == Header(hash)
\* GET /rest/headers/<count>/<start>.bin answered with status 200: up to
\* count headers of the active chain, from start on, in ascending height.
RestAnswer(n, count, start) ==
  LET h0 == HeightOf(start)
      m == Min(count, NodeTipHeight(n) - h0 + 1)
  IN [j \in 1..m |-> Header(NodeActiveHash(n, h0 + j - 1))]

\* The serialized header as the node sends it: one byte per field.
Serialize(header) == <<header.hash, header.prev_blockhash>>
RECURSIVE Concat(_)
Concat(seqs) == IF seqs = <<>> THEN <<>> ELSE Head(seqs) \o Concat(Tail(seqs))
\* A byte no header field takes: a chunk holding it does not decode.
BadByte == <<-1, -2>>
\* The responses to GET /rest/headers/<count>/<start>.bin: status 200 with
\* the serialized headers (at most limit of them), the same body cut off
\* inside its last header or with a byte damaged, or another status.
RestResponses(n, count, start) ==
  LET full == Concat([j \in 1..Min(Len(RestAnswer(n, count, start)), n.rest_limit) |->
                        Serialize(RestAnswer(n, count, start)[j])])
  IN {[status_code |-> HTTP_OK, body |-> full], [status_code |-> 404, body |-> <<>>]}
       \cup (IF full = <<>> THEN {}
             ELSE {[status_code |-> HTTP_OK, body |-> SubSeq(full, 1, Len(full) - 1)],
                   [status_code |-> HTTP_OK, body |-> <<BadByte>> \o Tail(full)],
                   [status_code |-> HTTP_OK, body |-> SubSeq(full, 1, Len(full) - 1) \o <<BadByte>>],
                   [status_code |-> 503, body |-> full]})
NoResponse == [status_code |-> 0, body |-> <<>>]

\* ------------------------------------------------------------ REST decoding
\* Mutant: chunks_exact in place of chunks, the short remainder is dropped.
RECURSIVE ChunksExact(_, _)
ChunksExact(bytes, n) ==
  IF Len(bytes) < n THEN <<>>
  ELSE <<SubSeq(bytes, 1, n)>> \o ChunksExact(SubSeq(bytes, n + 1, Len(bytes)), n)
\* node.rs:208 chunks(80): slices of n bytes, the last one shorter when the
\* length is no multiple of n.
RECURSIVE Chunks(_, _)
Chunks(bytes, n) ==
  IF bytes = <<>> THEN <<>>
  ELSE IF Len(bytes) <= n THEN <<bytes>>
  ELSE <<SubSeq(bytes, 1, n)>> \o Chunks(SubSeq(bytes, n + 1, Len(bytes)), n)
\* node.rs:209 bitcoin::consensus::encode::deserialize::<BlockHeader>: the
\* chunk decodes when it has the length of a header and every byte is one
\* a header field takes.
Deserialize(chunk) ==
  IF Len(chunk) = CHUNK_SIZE /\ \A j \in DOMAIN chunk : chunk[j] # BadByte
  THEN [ok |-> TRUE, header |-> [hash |-> chunk[1], prev_blockhash |-> chunk[2]]]
  ELSE [ok |-> FALSE, header |-> [hash |-> NullHash, prev_blockhash |-> NullHash]]

\* ------------------------------------------------------------------ state
VARIABLES
  node,             \* the backend and the node behind it
  tips,             \* the tips list handed to new_headers
  min_fork_height,  \* the configured threshold
  use_rest,         \* the use_rest field of BitcoinCoreNode (FALSE when there is none)
  tree,             \* the shared Tree
  lock,             \* the poller holding the Tree mutex, or NoPoller
  P                 \* per poller: position, locals and what it has done so far

vars == <<node, tips, min_fork_height, use_rest, tree, lock, P>>

\* The node record: backend is the implementor of trait Node, rest_limit the
\* most headers the node puts into one REST answer, active_branch the branch
\* the node's active chain follows above that branch's root (0: the chain
\* the forks leave from), overflow_checks whether the build checks integer
\* overflow.
Nodes(backends, limits, branches, checks) ==
  [backend : backends, rest_limit : limits, active_branch : branches,
   overflow_checks : checks]

\* Mutant: BtcdNode answers use_rest() with true.
BtcdUseRestTrue(n) == TRUE
\* node.rs:370-372
BtcdUseRest(n) == BTCD_USE_REST
\* node.rs:291-293 (BitcoinCoreNode), 370-372 (BtcdNode)
UseRest(n, field) == IF n.backend = "Btcd" THEN BtcdUseRest(n) ELSE field
\* node.rs:299-308 (BitcoinCoreNode), 378-380 (BtcdNode): version() of
\* BtcdNode fails with NotImplemented, that of BitcoinCoreNode is an RPC
\* that answers or fails.
Version(n) ==
  IF n.backend = "Btcd" THEN {"Err(BtcdRPC(NotImplemented))"}
  ELSE {"Ok(version)", "Err(BitcoinCoreRPC)"}

\* node.rs:310-342 run the RPC of BitcoinCoreNode inside task::spawn_blocking
\* and await it; node.rs:382-415 (BtcdNode) and node.rs:194 (minreq send)
\* make the call on the executor's thread, which waits for the answer.
OnExecutorThread(n, pc) ==
  \/ pc = "rest_wait"
  \/ n.backend = "Btcd" /\ pc \in {"hash_wait", "header_wait", "walk_wait"}

Ok(headers) == [ok |-> TRUE, err |-> "", headers |-> headers]
Err(e) == [ok |-> FALSE, err |-> e, headers |-> <<>>]
NoResult == [ok |-> FALSE, err |-> "pending", headers |-> <<>>]
DataError == "No 'active' chain tip returned"

\* node.rs:196-231: active_chain_headers_rest on the response received.
ActiveChainHeadersRest(res) ==
  IF res.status_code # HTTP_OK THEN Err("BitcoinCoreREST: status")
  ELSE LET chunks == Chunks(res.body, CHUNK_SIZE)
       IN IF \A j \in DOMAIN chunks : Deserialize(chunks[j]).ok
          THEN Ok([j \in DOMAIN chunks |-> Deserialize(chunks[j]).header])
          ELSE Err("BitcoinCoreREST: decode")

\* A network call: tip is 0 for a call of new_active_headers and the position
\* of the walked tip for a call of new_nonactive_headers.
Call(tip, op, arg) == [tip |-> tip, op |-> op, arg |-> arg]

InitPoller(pc) ==
  [pc |-> pc,
   \* locals of new_active_headers
   scan_start_height |-> 0, current_height |-> 0, active_tip |-> 0,
   height |-> 0, header_hash |-> NullHash, new_headers |-> <<>>,
   \* locals of new_nonactive_headers
   k |-> 0, i |-> 0, next_header |-> NullHash, nonactive |-> <<>>,
   \* what new_active_headers and new_headers returned
   active_result |-> NoResult, result |-> NoResult,
   \* history: the network calls issued, the heights whose membership test
   \* found the hash absent, the Tree at entry, the tips whose own hash was
   \* in the Tree when the walk reached them, the tip of each walked record,
   \* whether a network call failed and how many calls had been issued then,
   \* how often it took the lock, whether it inserted
   calls |-> <<>>, missing |-> {}, tree0 |-> {}, skipped |-> {}, walked |-> <<>>,
   \* the last REST response received and what active_chain_headers_rest
   \* returned for it
   failed |-> FALSE, failedAt |-> 0, locks |-> 0, inserted |-> FALSE,
   rest_res |-> NoResponse, rest_out |-> NoResult,
   \* the batches received: the height each started at, the headers in it
   batches |-> <<>>]

\* One poller runs alone.
Init ==
  /\ node \in Nodes({"BitcoinCore", "Btcd"}, {STEP_SIZE}, {0}, {FALSE})
  /\ tips \in TipLists
  /\ min_fork_height \in {0, Fork2Root}
  /\ use_rest \in (IF node.backend = "Btcd" THEN {FALSE} ELSE BOOLEAN)
  /\ tree \in TreeInits
  /\ lock = NoPoller
  /\ P = [p \in Pollers |-> IF p = 1 THEN InitPoller("start") ELSE InitPoller("off")]

\* --------------------------------------------------------- control flow
\* Mutant: the non-active part is put first.
ReturnOkReversed(r) ==
  [r EXCEPT !.pc = "returned", !.result = Ok(r.nonactive \o r.new_headers)]
\* node.rs:46: new_headers returns the active part followed by the
\* non-active part.
ReturnOk(r) ==
  [r EXCEPT !.pc = "returned", !.result = Ok(r.new_headers \o r.nonactive)]
\* Mutant: the failure ends the fetch and what was fetched is returned.
ReturnErrPartial(r, e) ==
  [r EXCEPT !.pc = "returned", !.result = Ok(r.new_headers \o r.nonactive),
            !.active_result = IF @ = NoResult THEN Err(e) ELSE @]
\* The ? of node.rs:40, 44, 103, 112, 124, 131, 167: the failure leaves
\* new_headers at once.
ReturnErr(r, e) ==
  [r EXCEPT !.pc = "returned", !.result = Err(e),
            !.active_result = IF @ = NoResult THEN Err(e) ELSE @]

\* node.rs:147-153: the head of the loop over the non-active tips, after
\* position k: the next tip's walk starts, or new_nonactive_headers returns.
EnterWalk(r, ts, mfh, k) ==
  LET j == NextInactiveIdx(ts, mfh, k)
  IN IF j = 0 THEN ReturnOk(r)
     ELSE [r EXCEPT !.pc = "walk_lock", !.k = j, !.i = 0, !.next_header = ts[j].hash]

\* Mutant: the range ends before the Active tip's height (.. in place of ..=).
ActiveLoopExcl(r, ts, mfh, h) ==
  IF h >= ts[r.active_tip].height
  THEN EnterWalk([r EXCEPT !.active_result = Ok(r.new_headers)], ts, mfh, 0)
  ELSE [r EXCEPT !.pc = "hash_wait", !.height = h,
                 !.calls = Append(@, Call(0, "block_hash", h))]
\* node.rs:101, 123: the head of the loop over the heights, at height h:
\* block_hash(h) is called, or the loop ends and new_nonactive_headers runs.
ActiveLoop(r, ts, mfh, h) ==
  IF h > ts[r.active_tip].height
  THEN EnterWalk([r EXCEPT !.active_result = Ok(r.new_headers)], ts, mfh, 0)
  ELSE [r EXCEPT !.pc = "hash_wait", !.height = h,
                 !.calls = Append(@, Call(0, "block_hash", h))]

\* node.rs:182-194: active_chain_headers_rest asserts use_rest() and sends
\* the GET; a failed assertion panics.
RestEntry(r, rest) ==
  IF rest
  THEN [r EXCEPT !.pc = "rest_wait", !.calls = Append(@, Call(0, "rest", r.header_hash))]
  ELSE [r EXCEPT !.pc = "panicked"]

\* node.rs:101 step_by(STEP_SIZE), node.rs:123 (step 1)
Step(rest) == IF rest THEN STEP_SIZE ELSE 1

\* node.rs:113-120: the heights query_height.. zipped with the headers.
ZipHeights(query_height, headers) ==
  [j \in 1..Len(headers) |-> HeaderInfo(query_height + j - 1, headers[j])]

\* ---------------------------------------------------------------- actions
\* A poller takes a step on a worker thread of the executor; a thread that
\* waits inside a call of another poller is not free.
CanRun(p) ==
  Cardinality({q \in Pollers \ {p} : OnExecutorThread(node, P[q].pc)}) < Workers

\* node.rs:56-68: new_headers enters new_active_headers, which selects the
\* first fork tip; with none it returns Ok and new_nonactive_headers finds
\* no tip either. The filter subtracts on every tip: in a build with
\* overflow checks an underflow panics.
SelectForkTip(p) ==
  /\ CanRun(p)
  /\ P[p].pc = "start"
  /\ LET r == [P[p] EXCEPT !.tree0 = tree]
         f == FirstForkTipIdx(tips, min_fork_height)
     IN P' = [P EXCEPT ![p] =
                IF /\ node.overflow_checks
                   /\ \E k \in DOMAIN tips : Underflows(tips[k].height, tips[k].branchlen)
                THEN [r EXCEPT !.pc = "panicked"]
                ELSE IF f = 0
                THEN EnterWalk([r EXCEPT !.active_result = Ok(<<>>)], tips, min_fork_height, 0)
                ELSE [r EXCEPT !.pc = "scan_lock",
                               !.scan_start_height = ScanStartHeight(tips[f])]]
  /\ UNCHANGED <<node, tips, min_fork_height, use_rest, tree, lock>>

\* tree.lock().await (node.rs:72, 105, 126, 155, and the caller's)
Acquire(p, from, to) ==
  /\ P[p].pc = from
  /\ lock = NoPoller
  /\ lock' = p
  /\ P' = [P EXCEPT ![p].pc = to, ![p].locks = @ + 1]
  /\ UNCHANGED <<node, tips, min_fork_height, use_rest, tree>>

\* node.rs:72
ScanLock(p) ==
  /\ CanRun(p)
  /\ P[p].pc = "scan_lock"
  /\ Acquire(p, "scan_lock", "scan")

\* Mutant: the guard outlives its block.
ReleaseNever(p) == lock' = lock
\* The guard is dropped at the end of its block (node.rs:83, 109, 130, 159).
Release(p) == lock' = NoPoller

\* node.rs:73-96: the leaf scan under the lock, then the Active tip.
LeafScan(p) ==
  /\ CanRun(p)
  /\ P[p].pc = "scan"
  /\ lock = p
  /\ Release(p)
  /\ LET cur == CurrentHeight(tree, P[p].scan_start_height)
         a == LastActiveIdx(tips)
         r == [P[p] EXCEPT !.current_height = cur, !.active_tip = a]
     IN P' = [P EXCEPT ![p] =
                IF a = 0 THEN ReturnErr(r, DataError)
                ELSE ActiveLoop(r, tips, min_fork_height, cur + 1)]
  /\ UNCHANGED <<node, tips, min_fork_height, use_rest, tree>>

\* A network call that fails: its ? returns the failure from new_headers.
NetErr(p, at) ==
  /\ P[p].pc = at
  /\ P' = [P EXCEPT ![p] =
             ReturnErr([P[p] EXCEPT !.failed = TRUE, !.failedAt = Len(P[p].calls)],
                       P[p].calls[Len(P[p].calls)])]
  /\ UNCHANGED <<node, tips, min_fork_height, use_rest, tree, lock>>

\* node.rs:103, 124: block_hash answers.
BlockHashOk(p) ==
  /\ CanRun(p)
  /\ P[p].pc = "hash_wait"
  /\ P' = [P EXCEPT ![p].pc = "check_lock",
                    ![p].header_hash = BlockHashAnswer(node, P[p].height)]
  /\ UNCHANGED <<node, tips, min_fork_height, use_rest, tree, lock>>

\* node.rs:103, 124: the call fails.
BlockHashErr(p) ==
  /\ CanRun(p)
  /\ P[p].pc = "hash_wait"
  /\ NetErr(p, "hash_wait")

\* node.rs:105, 126
CheckLock(p) ==
  /\ CanRun(p)
  /\ P[p].pc = "check_lock"
  /\ Acquire(p, "check_lock", "check")

\* node.rs:105-112, 126-131: the membership test under the lock; a known
\* hash continues the loop, an unknown one is fetched.
ActiveCheck(p) ==
  /\ CanRun(p)
  /\ P[p].pc = "check"
  /\ lock = p
  /\ Release(p)
  /\ LET r == [P[p] EXCEPT !.missing = IF P[p].header_hash \in TreeHashes(tree)
                                         THEN @ ELSE @ \cup {P[p].height}]
     IN P' = [P EXCEPT ![p] =
                IF Known(tree, r.header_hash)
                THEN ActiveLoop(r, tips, min_fork_height, r.height + Step(UseRest(node, use_rest)))
                ELSE IF UseRest(node, use_rest)
                THEN RestEntry(r, UseRest(node, use_rest))
                ELSE [r EXCEPT !.pc = "header_wait",
                               !.calls = Append(@, Call(0, "block_header", r.header_hash))]]
  /\ UNCHANGED <<node, tips, min_fork_height, use_rest, tree>>

\* node.rs:131-132: block_header answers, the record is pushed.
BlockHeaderOk(p) ==
  /\ CanRun(p)
  /\ P[p].pc = "header_wait"
  /\ HasBlock(P[p].header_hash)
  /\ LET r == P[p]
         header == BlockHeaderAnswer(r.header_hash)
         r2 == [r EXCEPT !.new_headers = Append(@, HeaderInfo(r.height, header))]
     IN P' = [P EXCEPT ![p] = ActiveLoop(r2, tips, min_fork_height, r.height + 1)]
  /\ UNCHANGED <<node, tips, min_fork_height, use_rest, tree, lock>>

\* node.rs:131: the call fails.
BlockHeaderErr(p) ==
  /\ CanRun(p)
  /\ P[p].pc = "header_wait"
  /\ NetErr(p, "header_wait")

\* node.rs:110-120: the response decodes, the headers are pushed with their
\* heights.
RestOk(p) ==
  /\ CanRun(p)
  /\ P[p].pc = "rest_wait"
  /\ \E res \in RestResponses(node, STEP_SIZE, P[p].header_hash) :
       LET out == ActiveChainHeadersRest(res)
           r == [P[p] EXCEPT !.rest_res = res, !.rest_out = out]
           r2 == [r EXCEPT !.new_headers = @ \o ZipHeights(r.height, out.headers),
                           !.batches = Append(@, [start |-> r.height,
                                                   returned |-> Len(out.headers)])]
       IN /\ out.ok
          /\ P' = [P EXCEPT ![p] = ActiveLoop(r2, tips, min_fork_height, r.height + STEP_SIZE)]
  /\ UNCHANGED <<node, tips, min_fork_height, use_rest, tree, lock>>

\* node.rs:196-223: the response has another status or does not decode.
RestBad(p) ==
  /\ CanRun(p)
  /\ P[p].pc = "rest_wait"
  /\ \E res \in RestResponses(node, STEP_SIZE, P[p].header_hash) :
       LET out == ActiveChainHeadersRest(res)
           r == [P[p] EXCEPT !.rest_res = res, !.rest_out = out,
                             !.failed = TRUE, !.failedAt = Len(P[p].calls)]
       IN /\ ~ out.ok
          /\ P' = [P EXCEPT ![p] = ReturnErr(r, r.calls[Len(r.calls)])]
  /\ UNCHANGED <<node, tips, min_fork_height, use_rest, tree, lock>>

\* node.rs:194: send() fails.
RestErr(p) ==
  /\ CanRun(p)
  /\ P[p].pc = "rest_wait"
  /\ NetErr(p, "rest_wait")

\* node.rs:155
WalkLock(p) ==
  /\ CanRun(p)
  /\ P[p].pc = "walk_lock"
  /\ Acquire(p, "walk_lock", "walk_check")

\* Mutant: the test of the tip's hash enters the hash into the Tree.
WalkCheckInserting(p) ==
  /\ CanRun(p)
  /\ P[p].pc = "walk_check"
  /\ lock = p
  /\ Release(p)
  /\ tree' = tree \cup (IF ContainsKey(tree, tips[P[p].k].hash) THEN {}
                         ELSE {HeaderInfo(tips[P[p].k].height, Header(tips[P[p].k].hash))})
  /\ P' = [P EXCEPT ![p] =
             IF WalkBreaks(tree, tips[P[p].k], P[p].next_header)
             THEN EnterWalk(P[p], tips, min_fork_height, P[p].k)
             ELSE [P[p] EXCEPT !.pc = "walk_wait",
                               !.calls = Append(@, Call(P[p].k, "block_header", P[p].next_header))]]
  /\ UNCHANGED <<node, tips, min_fork_height, use_rest>>
\* node.rs:154-167: the test of the tip's own hash under the lock; a known
\* tip breaks the walk, an unknown one has next_header fetched.
WalkCheck(p) ==
  /\ CanRun(p)
  /\ P[p].pc = "walk_check"
  /\ lock = p
  /\ Release(p)
  /\ LET r == [P[p] EXCEPT !.skipped =
                  IF P[p].i = 0 /\ tips[P[p].k].hash \in TreeHashes(tree)
                  THEN @ \cup {P[p].k} ELSE @]
     IN P' = [P EXCEPT ![p] =
                IF WalkBreaks(tree, tips[r.k], r.next_header)
                THEN EnterWalk(r, tips, min_fork_height, r.k)
                ELSE IF node.overflow_checks /\ Underflows(tips[r.k].height, r.i)
                THEN [r EXCEPT !.pc = "panicked"]
                ELSE [r EXCEPT !.pc = "walk_wait",
                               !.calls = Append(@, Call(r.k, "block_header", r.next_header))]]
  /\ UNCHANGED <<node, tips, min_fork_height, use_rest, tree>>

\* node.rs:161-171: the header answers, the record is pushed and the walk
\* steps back.
WalkHeaderOk(p) ==
  /\ CanRun(p)
  /\ P[p].pc = "walk_wait"
  /\ HasBlock(P[p].next_header)
  /\ LET r == P[p]
         tip == tips[r.k]
         header == BlockHeaderAnswer(r.next_header)
         r2 == [r EXCEPT !.nonactive = Append(@, HeaderInfo(WalkHeight(tip, r.i), header)),
                         !.walked = Append(@, r.k),
                         !.next_header = header.prev_blockhash]
     IN P' = [P EXCEPT ![p] =
                IF WalkDone(r.i, tip.branchlen) THEN EnterWalk(r2, tips, min_fork_height, r.k)
                ELSE [r2 EXCEPT !.pc = "walk_lock", !.i = r.i + 1]]
  /\ UNCHANGED <<node, tips, min_fork_height, use_rest, tree, lock>>

\* node.rs:167: the call fails.
WalkHeaderErr(p) ==
  /\ CanRun(p)
  /\ P[p].pc = "walk_wait"
  /\ NetErr(p, "walk_wait")

\* ------------------------------------------------------------ the caller
\* The caller inserts the returned records under the lock; a hash the
\* index already holds is not added again.
RECURSIVE InsertAll(_, _)
InsertAll(t, headers) ==
  IF headers = <<>> THEN t
  ELSE LET h == Head(headers)
       IN InsertAll(IF ContainsKey(t, h.header.hash) THEN t ELSE t \cup {h}, Tail(headers))

InsertLock(p) ==
  /\ CanRun(p)
  /\ P[p].result.ok
  /\ Acquire(p, "returned", "insert")

Insert(p) ==
  /\ CanRun(p)
  /\ P[p].pc = "insert"
  /\ lock = p
  /\ Release(p)
  /\ tree' = InsertAll(tree, P[p].result.headers)
  /\ P' = [P EXCEPT ![p].pc = "done", ![p].inserted = TRUE]
  /\ UNCHANGED <<node, tips, min_fork_height, use_rest>>

\* A failed cycle inserts nothing.
Discard(p) ==
  /\ CanRun(p)
  /\ P[p].pc = "returned"
  /\ ~ P[p].result.ok
  /\ P' = [P EXCEPT ![p].pc = "done"]
  /\ UNCHANGED <<node, tips, min_fork_height, use_rest, tree, lock>>

Next ==
  \E p \in Pollers :
    \/ SelectForkTip(p)
    \/ ScanLock(p)
    \/ LeafScan(p)
    \/ BlockHashOk(p)
    \/ BlockHashErr(p)
    \/ CheckLock(p)
    \/ ActiveCheck(p)
    \/ BlockHeaderOk(p)
    \/ BlockHeaderErr(p)
    \/ RestOk(p)
    \/ RestBad(p)
    \/ RestErr(p)
    \/ WalkLock(p)
    \/ WalkCheck(p)
    \/ WalkHeaderOk(p)
    \/ WalkHeaderErr(p)
    \/ InsertLock(p)
    \/ Insert(p)
    \/ Discard(p)

Spec == Init /\ [][Next]_vars

\* One poller runs alone against a node whose REST answers hold at most
\* rest_limit headers, from the start hash on, whatever count was asked for.
InitShort ==
  /\ node \in Nodes({"BitcoinCore", "Btcd"}, 1..STEP_SIZE, {0}, {FALSE})
  /\ tips \in TipLists
  /\ min_fork_height \in {0, Fork2Root}
  /\ use_rest \in (IF node.backend = "Btcd" THEN {FALSE} ELSE BOOLEAN)
  /\ tree \in TreeInits
  /\ lock = NoPoller
  /\ P = [p \in Pollers |-> IF p = 1 THEN InitPoller("start") ELSE InitPoller("off")]

SpecShort == InitShort /\ [][Next]_vars

\* One poller runs alone on a tips list that may hold the malformed tip, in
\* a build with or without overflow checks.
InitMalformed ==
  /\ node \in Nodes({"BitcoinCore", "Btcd"}, {STEP_SIZE}, {0}, BOOLEAN)
  /\ tips \in TipListsOf(TipUniverse \cup {MalformedTip})
  /\ min_fork_height \in {0, Fork2Root}
  /\ use_rest \in (IF node.backend = "Btcd" THEN {FALSE} ELSE BOOLEAN)
  /\ tree \in {{}} \cup {TreeWith(1, hi, S) : hi \in {Fork1Root, MaxHeight - 1}, S \in {{}, {1}}}
  /\ lock = NoPoller
  /\ P = [p \in Pollers |-> IF p = 1 THEN InitPoller("start") ELSE InitPoller("off")]

SpecMalformed == InitMalformed /\ [][Next]_vars

\* Between two polling cycles the node reorganises onto branch b; the
\* caller's next cycle reads the tips anew and runs new_headers on them.
ReorgAndPoll(b) ==
  /\ node.active_branch = 0
  /\ P[1].pc = "done"
  /\ \A p \in Pollers : P[p].pc \in {"off", "done"}
  /\ node' = [node EXCEPT !.active_branch = b]
  /\ tips' \in ReorgTipLists(b)
  /\ P' = [P EXCEPT ![1] = InitPoller("start")]
  /\ UNCHANGED <<min_fork_height, use_rest, tree, lock>>

\* The Tree starts empty; after the first cycle the node may reorganise and
\* a second cycle runs.
InitReorg ==
  /\ node \in Nodes({"BitcoinCore", "Btcd"}, {STEP_SIZE}, {0}, {FALSE})
  /\ tips \in TipLists
  /\ min_fork_height \in {0, Fork2Root}
  /\ use_rest \in (IF node.backend = "Btcd" THEN {FALSE} ELSE BOOLEAN)
  /\ tree = {}
  /\ lock = NoPoller
  /\ P = [p \in Pollers |-> IF p = 1 THEN InitPoller("start") ELSE InitPoller("off")]

NextReorg ==
  \/ Next
  \/ \E b \in Forks : ReorgAndPoll(b)

SpecReorg == InitReorg /\ [][NextReorg]_vars

\* Two pollers run new_headers on the same tips against the same Tree, in
\* any interleaving.
InitConc ==
  /\ node \in Nodes({"BitcoinCore"}, {STEP_SIZE}, {0}, {FALSE})
  /\ tips \in TipLists
  /\ min_fork_height = 0
  /\ use_rest \in BOOLEAN
  /\ tree \in TreeInitsConc
  /\ lock = NoPoller
  /\ P = [p \in Pollers |-> InitPoller("start")]

SpecConc == InitConc /\ [][Next]_vars

\* Two pollers, on either backend, start on the empty Tree.
InitStall ==
  /\ node \in Nodes({"BitcoinCore", "Btcd"}, {STEP_SIZE}, {0}, {FALSE})
  /\ tips \in TipLists
  /\ min_fork_height = 0
  /\ use_rest \in (IF node.backend = "Btcd" THEN {FALSE} ELSE BOOLEAN)
  /\ tree = {}
  /\ lock = NoPoller
  /\ P = [p \in Pollers |-> InitPoller("start")]

SpecStall == InitStall /\ [][Next]_vars

\* ================================================================ claims
Range(seq) == {seq[j] : j \in DOMAIN seq}
HashesOf(headers) == {headers[j].header.hash : j \in DOMAIN headers}
IsPrefix(a, b) == Len(a) <= Len(b) /\ \A j \in DOMAIN a : a[j] = b[j]
\* The calls new_active_headers issued.
ActiveCalls(r) == SelectSeq(r.calls, LAMBDA c : c.tip = 0)
\* The tips as the claims read them.
TipRoot(tip) == tip.height - tip.branchlen
QualRoots == {TipRoot(tips[k]) : k \in {j \in DOMAIN tips : TipRoot(tips[j]) > min_fork_height}}
HasActive == \E k \in DOMAIN tips : tips[k].status = "Active"
ActiveTipHeight ==
  tips[CHOOSE k \in DOMAIN tips :
         /\ tips[k].status = "Active"
         /\ \A j \in DOMAIN tips : tips[j].status = "Active" => j <= k].height
HasRecord(headers, h) ==
  \E j \in DOMAIN headers : headers[j] = HeaderInfo(h, Header(ActiveHash(h)))

\* C1: when new_active_headers returns Ok with a qualifying tip and an Active
\* tip, its list holds the record of every height in
\* (current_height, active_tip.height] whose membership test found the hash
\* absent, on the bulk and on the per-item path; on the per-item path every
\* height of that range is tested, so it is returned or in the Tree.
C1_ActiveCoversMissing ==
  \A p \in Pollers :
    LET r == P[p]
    IN (r.active_result.ok /\ QualRoots # {} /\ HasActive) =>
         \A h \in (r.current_height + 1)..ActiveTipHeight :
           /\ h \in r.missing => HasRecord(r.active_result.headers, h)
           /\ ~ use_rest =>
                \/ HasRecord(r.active_result.headers, h)
                \/ ActiveHash(h) \in TreeHashes(tree)

C1_Witness ==
  \E p \in Pollers :
    /\ P[p].active_result.ok /\ use_rest
    /\ Cardinality(P[p].missing) >= 2
    /\ Len(P[p].active_result.headers) > STEP_SIZE

\* The hashes the header fetches of new_active_headers return.
FetchedByActive(r) ==
  UNION {IF c.op = "block_header" THEN {c.arg}
         ELSE IF c.op = "rest"
         THEN {ActiveHash(h) : h \in HeightOf(c.arg)..Min(HeightOf(c.arg) + STEP_SIZE - 1, MaxHeight)}
         ELSE {} : c \in Range(ActiveCalls(r))}

\* C2: no hash that was in the Tree when new_active_headers was entered is
\* returned by one of its header fetches or is in one of its records.
C2_NoRefetchOfKnown ==
  \A p \in Pollers :
    (FetchedByActive(P[p]) \cup HashesOf(P[p].new_headers)) \cap TreeHashes(P[p].tree0) = {}

C2_Witness ==
  \E p \in Pollers :
    /\ P[p].active_result.ok /\ use_rest
    /\ P[p].tree0 # {}
    /\ Len(P[p].new_headers) > 1

\* C3 as stated: with no Active tip, new_active_headers returns the
\* data-consistency error and calls nothing, whatever min_fork_height is.
C3_Original ==
  \A p \in Pollers :
    (~ HasActive /\ P[p].active_result # NoResult) =>
       /\ P[p].active_result = Err(DataError)
       /\ ActiveCalls(P[p]) = <<>>

\* C3 amended: with no Active tip and at least one tip whose fork-root height
\* is above min_fork_height, new_active_headers returns the data-consistency
\* error and makes no block_hash, block_header or bulk call.
C3_NoActiveIsDataError ==
  \A p \in Pollers :
    (~ HasActive /\ QualRoots # {} /\ P[p].active_result # NoResult) =>
       /\ P[p].active_result = Err(DataError)
       /\ ActiveCalls(P[p]) = <<>>

C3_Witness ==
  \E p \in Pollers :
    /\ ~ HasActive /\ QualRoots # {} /\ tree # {}
    /\ P[p].active_result = Err(DataError)
    /\ P[p].pc = "returned"

\* C4: with no tip whose fork-root height is above min_fork_height,
\* new_active_headers returns Ok with an empty list, having taken no lock and
\* made no network call; and it returns Ok without reaching the fetch loop
\* only then.
C4_NoQualifyingTipIsEmptyOk ==
  \A p \in Pollers :
    LET r == P[p]
    IN /\ (QualRoots = {} /\ r.pc # "start" /\ r.pc # "off") =>
            /\ r.active_result = Ok(<<>>)
            /\ r.calls = <<>>
            /\ r.pc = "returned" => r.locks = 0
       /\ (r.active_result.ok /\ r.active_tip = 0) => QualRoots = {}

C4_Witness ==
  \E p \in Pollers :
    /\ QualRoots = {} /\ tips # <<>> /\ tree # {}
    /\ P[p].pc = "returned" /\ P[p].active_result = Ok(<<>>)

\* scan_start = max(min qualifying fork-root height - 5, 0)
ExpectedScanStart == Max(SetMin(QualRoots) - 5, 0)
\* block_hash(h), block_header(hash at h) for h = s+1 .. top.
ExpectedCalls(s, top) ==
  [j \in 1..(2 * (top - s)) |->
     IF j % 2 = 1 THEN Call(0, "block_hash", s + (j + 1) \div 2)
     ELSE Call(0, "block_header", ActiveHash(s + j \div 2))]
ExpectedRecords(s, top) ==
  [j \in 1..(top - s) |-> HeaderInfo(s + j, Header(ActiveHash(s + j)))]

\* C5: with an empty Tree, a per-item backend, a qualifying tip and an
\* Active tip, new_active_headers calls block_hash and block_header once for
\* each height scan_start+1 .. active_tip.height, ascending, and nothing
\* else, and returns one record per such height in that order.
C5_EmptyTreePerItemCalls ==
  \A p \in Pollers :
    LET r == P[p]
    IN (~ use_rest /\ r.tree0 = {} /\ r.pc # "start" /\ QualRoots # {} /\ HasActive) =>
         /\ IsPrefix(ActiveCalls(r), ExpectedCalls(ExpectedScanStart, ActiveTipHeight))
         /\ r.active_result.ok =>
              /\ ActiveCalls(r) = ExpectedCalls(ExpectedScanStart, ActiveTipHeight)
              /\ r.active_result.headers = ExpectedRecords(ExpectedScanStart, ActiveTipHeight)

C5_Witness ==
  \E p \in Pollers :
    /\ ~ use_rest /\ P[p].tree0 = {} /\ P[p].pc = "returned"
    /\ QualRoots # {} /\ HasActive
    /\ ExpectedScanStart > 0
    /\ P[p].active_result.ok
    /\ Len(P[p].active_result.headers) = 5

RECURSIVE Ancestor(_, _)
\* The hash reached by following prev_blockhash i times.
Ancestor(hash, i) == IF i = 0 THEN hash ELSE Ancestor(PrevHash(hash), i - 1)
\* The records the walk of the tip at position k contributed, in order.
WalkRecords(r, k) ==
  LET pairs == [j \in DOMAIN r.nonactive |-> [tip |-> r.walked[j], info |-> r.nonactive[j]]]
      mine == SelectSeq(pairs, LAMBDA x : x.tip = k)
  IN [j \in DOMAIN mine |-> mine[j].info]
WalkedTip(k) ==
  /\ tips[k].status # "Active"
  /\ TipRoot(tips[k]) > min_fork_height

\* C6: with the Tree unchanged during the call, a non-Active tip with
\* fork-root height above min_fork_height whose hash is not in the Tree
\* contributes exactly branchlen+1 records, the i-th with height
\* tip.height - i and the header reached by following prev_blockhash i times.
C6_WalkReturnsBranch ==
  \A p \in Pollers : \A k \in DOMAIN tips :
    LET r == P[p]
        tip == tips[k]
    IN (r.result.ok /\ WalkedTip(k) /\ tip.hash \notin TreeHashes(r.tree0)) =>
         WalkRecords(r, k) =
           [j \in 1..(tip.branchlen + 1) |->
              HeaderInfo(tip.height - (j - 1), Header(Ancestor(tip.hash, j - 1)))]

C6_Witness ==
  \E p \in Pollers : \E k \in DOMAIN tips :
    /\ P[p].result.ok /\ WalkedTip(k)
    /\ tips[k].hash \notin TreeHashes(P[p].tree0)
    /\ tips[k].branchlen >= 2
    /\ P[p].tree0 # {}

\* C7: a non-Active tip whose own hash is in the Tree when the walk reaches
\* it contributes no record and causes no block_header call.
C7_KnownTipSkipped ==
  \A p \in Pollers : \A k \in P[p].skipped :
    /\ WalkRecords(P[p], k) = <<>>
    /\ \A c \in Range(P[p].calls) : c.tip # k

C7_Witness ==
  \E p \in Pollers : \E k \in P[p].skipped :
    /\ P[p].result.ok
    /\ tips[k].branchlen >= 2
    /\ tips[k].hash \notin TreeHashes(P[p].tree0)

NetWait == {"hash_wait", "header_wait", "rest_wait", "walk_wait"}
\* C8: no poller holds the Tree mutex while one of its network calls is in
\* progress; it holds it only for the leaf scan, one membership test, or
\* the caller's insertion.
C8_NoLockAcrossNetwork ==
  \A p \in Pollers :
    /\ P[p].pc \in NetWait => lock # p
    /\ lock = p => P[p].pc \in {"scan", "check", "walk_check", "insert"}

C8_Witness ==
  \E p, q \in Pollers :
    /\ p # q
    /\ P[p].pc \in NetWait
    /\ lock = q /\ P[q].pc \in {"check", "walk_check"}

NoDuplicateHash(t) == \A n, m \in t : n.header.hash = m.header.hash => n = m
\* The highest leaf height of a Tree.
MaxLeafHeight(t) ==
  SetMax({n.height : n \in {x \in t : \A m \in t : m.header.prev_blockhash # x.header.hash}})
\* The hashes one poller running alone from Tree t0 fetches and inserts.
SoloHashes(t0) ==
  IF QualRoots = {} \/ ~ HasActive THEN {}
  ELSE LET cur == IF t0 = {} THEN ExpectedScanStart ELSE MaxLeafHeight(t0)
       IN {ActiveHash(h) : h \in (cur + 1)..ActiveTipHeight}
            \cup UNION {{Ancestor(tips[k].hash, i) : i \in 0..tips[k].branchlen} :
                          k \in {j \in DOMAIN tips :
                                   WalkedTip(j) /\ tips[j].hash \notin TreeHashes(t0)}}
AllDone == \A p \in Pollers : P[p].pc = "done"

\* C9: after two pollers have run new_headers on the same tips and Tree and
\* inserted, the Tree holds each hash once and holds every header a poller
\* running alone from the Tree it found would have inserted.
C9_RaceLosesNothing ==
  AllDone =>
    /\ NoDuplicateHash(tree)
    /\ \A p \in Pollers :
         P[p].result.ok =>
           TreeHashes(P[p].tree0) \cup SoloHashes(P[p].tree0) \subseteq TreeHashes(tree)

C9_Witness ==
  /\ AllDone
  /\ \A p \in Pollers : P[p].result.ok
  /\ HashesOf(P[1].result.headers) \cap HashesOf(P[2].result.headers) # {}
  /\ P[1].result.headers # P[2].result.headers

\* C10: a failed network call ends new_headers with that failure: no call
\* follows it and no header fetched before it is returned.
C10_FirstFailureReturned ==
  \A p \in Pollers :
    LET r == P[p]
    IN r.failed =>
         /\ r.pc \in {"returned", "done"}
         /\ ~ r.result.ok
         /\ r.result.headers = <<>>
         /\ Len(r.calls) = r.failedAt
         /\ r.result.err = r.calls[r.failedAt]

C10_Witness ==
  \E p \in Pollers :
    /\ P[p].failed /\ P[p].pc = "done"
    /\ P[p].calls[P[p].failedAt].tip # 0
    /\ P[p].new_headers # <<>>
    /\ P[p].nonactive # <<>>

\* C11: when new_headers returns Ok, its list is the list new_active_headers
\* returned followed by the list new_nonactive_headers built, each in its own
\* order, and no call of new_nonactive_headers is issued before
\* new_active_headers has returned Ok nor followed by one of its calls.
C11_ActiveThenNonactive ==
  \A p \in Pollers :
    LET r == P[p]
    IN /\ r.result.ok =>
            /\ r.active_result.ok
            /\ r.result.headers = r.active_result.headers \o r.nonactive
       /\ \A a, b \in DOMAIN r.calls :
            (a < b /\ r.calls[a].tip # 0) => r.calls[b].tip # 0
       /\ (\E a \in DOMAIN r.calls : r.calls[a].tip # 0) => r.active_result.ok
       /\ r.pc \in {"walk_lock", "walk_check", "walk_wait"} => r.active_result.ok
C11_Witness ==
  \E p \in Pollers :
    /\ P[p].result.ok
    /\ Len(P[p].active_result.headers) >= 2
    /\ Len(P[p].nonactive) >= 2
    /\ P[p].active_result.headers # P[p].nonactive

\* C12: for a response with status 200 whose body is n whole chunks that
\* all decode, active_chain_headers_rest returns exactly the n headers in
\* body order; for another status, a body whose length is no multiple of
\* the chunk size, or a chunk that does not decode, it returns a failure
\* and no header.
C12_RestDecodesAllOrNothing ==
  \A p \in Pollers :
    LET res == P[p].rest_res
        b == res.body
        n == Len(b) \div CHUNK_SIZE
        good == /\ res.status_code = 200
                /\ Len(b) % CHUNK_SIZE = 0
                /\ \A j \in DOMAIN b : b[j] # BadByte
    IN res # NoResponse =>
         IF good
         THEN P[p].rest_out =
                Ok([j \in 1..n |-> [hash |-> b[(j - 1) * CHUNK_SIZE + 1],
                                     prev_blockhash |-> b[(j - 1) * CHUNK_SIZE + 2]]])
         ELSE ~ P[p].rest_out.ok /\ P[p].rest_out.headers = <<>>
C12_Witness ==
  \E p \in Pollers :
    /\ P[p].rest_res.status_code = 200
    /\ Len(P[p].rest_res.body) = 2 * CHUNK_SIZE
    /\ P[p].rest_out.ok
    /\ Len(P[p].rest_out.headers) = 2
    /\ P[p].rest_out.headers[1].hash = P[p].rest_out.headers[2].prev_blockhash

\* C13: while a poller waits on a network call (a single-item RPC of either
\* backend or the bulk REST GET), every other poller can take its next
\* step: one that has not yet started can select its fork tip, one that
\* has returned can hand its result to the caller.
C13_NetworkWaitStallsNoPoller ==
  \A p, q \in Pollers :
    (p # q /\ P[p].pc \in NetWait) =>
      /\ P[q].pc = "start" => ENABLED SelectForkTip(q)
      /\ (P[q].pc = "returned" /\ ~ P[q].result.ok) => ENABLED Discard(q)

\* C14: BtcdNode answers version() with the not-implemented failure only and
\* never issues the bulk REST call, so it fetches header by header; on any
\* backend a REST call is issued only by a BitcoinCoreNode built with
\* use_rest, so the assertion at the head of active_chain_headers_rest
\* never fails.
C14_BtcdPerItemAssertHolds ==
  \A p \in Pollers :
    LET r == P[p]
        rest == {a \in DOMAIN r.calls : r.calls[a].op = "rest"}
    IN /\ node.backend = "Btcd" =>
            /\ Version(node) = {"Err(BtcdRPC(NotImplemented))"}
            /\ rest = {} /\ r.pc # "rest_wait" /\ r.rest_res = NoResponse
            /\ \A j \in DOMAIN r.new_headers :
                 \E a \in DOMAIN r.calls :
                   r.calls[a] = Call(0, "block_header", r.new_headers[j].header.hash)
       /\ (rest # {} \/ r.pc = "rest_wait") => (node.backend = "BitcoinCore" /\ use_rest)
       /\ r.pc # "panicked"
C14_Witness ==
  \E p \in Pollers :
    /\ node.backend = "Btcd"
    /\ P[p].result.ok
    /\ Len(P[p].active_result.headers) >= 2

\* C15: no step of new_headers, new_active_headers or new_nonactive_headers
\* changes the Tree, whether the call ends in Ok or in a failure: the Tree
\* changes only in the step in which the caller inserts a returned list.
C15_OnlyCallerChangesTree ==
  [][tree' # tree => \E p \in Pollers : P[p].pc = "insert" /\ P'[p].pc = "done"]_vars
C15_Witness ==
  \E p \in Pollers :
    /\ P[p].pc = "returned"
    /\ P[p].locks >= 3
    /\ P[p].nonactive # <<>>
    /\ tree # {}
    /\ tree = P[p].tree0

\* C16: on the bulk path every batch starts at the hash of a height whose
\* membership test found it absent, each later batch starts at the start
\* height of the batch before plus the number of headers that batch
\* returned, and when new_active_headers returns Ok every height in
\* (current_height, active_tip.height] was queried by block_hash or is in
\* the returned list, also when a batch held fewer than STEP_SIZE headers.
C16_BatchesAdvanceByReturned ==
  \A p \in Pollers :
    LET r == P[p]
        queried == {r.calls[a].arg : a \in {b \in DOMAIN r.calls : r.calls[b].op = "block_hash"}}
    IN /\ \A j \in DOMAIN r.batches : r.batches[j].start \in r.missing
       /\ \A j \in DOMAIN r.batches :
            j > 1 => r.batches[j].start = r.batches[j - 1].start + r.batches[j - 1].returned
       /\ (r.active_result.ok /\ r.batches # <<>>) =>
            \A h \in (r.current_height + 1)..ActiveTipHeight :
              h \in queried \/ HasRecord(r.active_result.headers, h)

\* C17: the records one tip contributes to a list new_headers returns with
\* Ok are none or the full branchlen + 1: an insertion of the tip's hash by
\* another poller while the walk is under way does not end the walk early.
C17_WalkAllOrNothing ==
  \A p \in Pollers :
    P[p].result.ok =>
      \A k \in DOMAIN tips :
        Cardinality({j \in DOMAIN P[p].walked : P[p].walked[j] = k})
          \in {0, tips[k].branchlen + 1}

C20_NoUnderflowNoPanic ==
  \A p \in Pollers :
    /\ P[p].pc # "panicked"
    /\ P[p].result.ok =>
         \A j \in DOMAIN P[p].nonactive :
           /\ P[p].nonactive[j].height >= TipRoot(tips[P[p].walked[j]])
           /\ TipRoot(tips[P[p].walked[j]]) > min_fork_height

\* C18: once a polling cycle on tips with an Active tip and a qualifying tip
\* has succeeded and its list is inserted, the Tree holds the header of the
\* node's active chain at every height from the lowest height the Tree
\* stores up to the Active tip, also when the node's active chain was
\* reorganised between the cycles.
C18_ActiveChainComplete ==
  \A p \in Pollers :
    (P[p].pc = "done" /\ P[p].result.ok /\ HasActive /\ QualRoots # {}) =>
      \A h \in SetMin({n.height : n \in tree})..ActiveTipHeight :
        NodeActiveHash(node, h) \in TreeHashes(tree)

====
